---- MODULE Spec2Model ----
(***************************************************************************)
(* notiflyme-bot: the reminder collection shared by the Telegram bot       *)
(* handlers and the Celery dispatch workers.                               *)
(*                                                                         *)
(* A reminder document is a record                                         *)
(*   [user_id, reminder, reminder_date, sent, processing]                  *)
(* (one that a conversation inserted has recurrence as well)               *)
(* where processing is "absent" (the field is not in the document, as      *)
(* right after insert_one), "true" or "false".  db maps the _id of every   *)
(* document that is in the collection to its record; _ids are never        *)
(* reused.                                                                 *)
(***************************************************************************)
EXTENDS Integers, Sequences, FiniteSets, TLC

\* ------------------------------------------------------------- bounds
NumWorkers == 2
MaxDocs == 2
MaxTime == 1
MaxCount == 2
MaxShort == 3
MaxSpan == 9

Workers == 1..NumWorkers
DocIds == 1..MaxDocs
Dates == 1..(MaxTime + 1)   \* the last one is not due within the horizon
Users == {1, 2}
Texts == {"milk"}

VARIABLES
    now,        \* the wall clock, datetime.now(timezone.utc)
    db,         \* the reminders collection: _id -> document
    nextId,     \* the next _id insert_one hands out
    pc,         \* each worker's position in celery_worker / send_due_reminders
    now_utc,    \* each pass's now_utc (reminder_tasks.py line 59)
    cur,        \* each pass's claimed document: reminder_id, user_id, text
    success,    \* each pass's result of _send_telegram_message
    task_state, \* the state of each worker's latest check_reminders task
    delivered,  \* per _id: sends that reached the user and returned True
    claimants,  \* per _id: workers that claimed it since processing was last not true
    attempted,  \* per worker: the _ids its current pass has claimed so far
    conv,       \* per user: state of the clear-all ConversationHandler
    last,       \* the last update the bot was sent and the reply it got
    users,      \* the users collection: the preference records, in insertion order
    call,       \* the utility call under study: its function, argument and outcome
    setconv,    \* per user: state of the set-reminder ConversationHandler
    user_data,  \* per user: context.user_data, the keys reminder and reminder_date
    awaiting    \* the handle_date call that awaits the date parser, if there is one

vars ==
    <<now, db, nextId, pc, now_utc, cur, success, task_state, delivered, claimants,
      attempted, conv, last, users, call, setconv, user_data, awaiting>>
workerVars == <<pc, now_utc, cur, success, task_state, attempted>>
botVars == <<conv, last>>
libVars == <<users, call>>
chatVars == <<setconv, user_data, awaiting>>

Min(a, b) == IF a < b THEN a ELSE b

\* ------------------------------------------------------------- documents
NoCur == [id |-> 0, user_id |-> 0, reminder |-> ""]

\* What stands for the reminder field of a stored document that has none.
NoField == "(no field)"

\* The filter without its processing clause: a find that does not look at the lock.
claim_filter_ignores_lock(d, t) ==
    /\ d.reminder_date <= t
    /\ d.sent = FALSE

\* The filter without its reminder_date clause: a find that takes what is not due.
claim_filter_ignores_date(d, t) ==
    /\ d.sent = FALSE
    /\ d.processing # "true"

\* The filter of find_one_and_update, reminder_tasks.py lines 66-70.
claim_filter(d, t) ==
    /\ d.reminder_date <= t
    /\ d.sent = FALSE
    /\ d.processing # "true"

\* update_one with upsert=True: when r is not in the collection a document is
\* created with the fields that are set (its other fields stand empty).
update_one_upsert(coll, r, fields) ==
    [q \in DOMAIN coll \cup {r} |->
        LET d == IF q \in DOMAIN coll THEN coll[q]
                 ELSE [user_id |-> 0, reminder |-> NoField, reminder_date |-> 0,
                       sent |-> FALSE, processing |-> "absent"] IN
        IF q = r THEN [f \in DOMAIN d |-> IF f \in DOMAIN fields THEN fields[f] ELSE d[f]]
        ELSE d]

\* update_one({"_id": r}, {"$set": fields}): a no-op when r is not in the collection
update_one(coll, r, fields) ==
    IF r \in DOMAIN coll
    THEN [coll EXCEPT ![r] = [f \in DOMAIN coll[r] |->
                                 IF f \in DOMAIN fields THEN fields[f] ELSE coll[r][f]]]
    ELSE coll

\* The hook with the filter {"processing": True, "sent": False}: a sent document
\* stays locked.
cleanup_unsent_only(coll) ==
    [r \in DOMAIN coll |->
        IF coll[r].processing = "true" /\ ~coll[r].sent
        THEN [coll[r] EXCEPT !.processing = "false"]
        ELSE coll[r]]

\* update_many({"processing": True}, {"$set": {"processing": False}})
cleanup_update_many(coll) ==
    [r \in DOMAIN coll |->
        IF coll[r].processing = "true"
        THEN [coll[r] EXCEPT !.processing = "false"]
        ELSE coll[r]]

\* processing of r was written not-true: the claimants recorded for r are forgotten
Unlocked(cl, coll) ==
    [r \in DocIds |-> IF r \in DOMAIN coll /\ coll[r].processing = "true" THEN cl[r] ELSE {}]

\* ------------------------------------------------------------- updates
\* An update and what it was answered: the sender, the handler it was routed
\* to, its message text (a sequence of characters) or its arguments, the reply,
\* the number the reply carries, the timezone name the reply carries and the
\* bullet lines the reply carries.
Exchange(u, h, t, rep, k) ==
    [from |-> u, cmd |-> h, text |-> t, reply |-> rep, n |-> k, tz |-> << >>,
     lines |-> << >>]
NoUpdate == Exchange(0, "", << >>, "", 0)

\* context.user_data of a user the bot has stored nothing for: neither key is set.
NoData == [reminder |-> << >>, reminder_date |-> << >>]

\* No handle_date call is waiting for the date parser.
NoAwait == [user |-> 0, user_date |-> << >>, user_tz |-> << >>]

\* No utility call is under study.
NoCall == [fn |-> "", arg |-> << >>, out |-> << >>]

\* str.lower() on the characters the replies are written in
LowerChar(c) ==
    CASE c = "Y" -> "y"
      [] c = "E" -> "e"
      [] c = "S" -> "s"
      [] c = "N" -> "n"
      [] c = "O" -> "o"
      [] OTHER -> c
lower(t) == [i \in DOMAIN t |-> LowerChar(t[i])]

yes == <<"y", "e", "s">>
no == <<"n", "o">>
ConfirmTexts ==
    { yes, <<"Y", "E", "S">>, <<"Y", "e", "s">>, no, <<"N", "o">>,
      <<"y", "e", "s", " ">>, <<"o", "k">> }

\* ------------------------------------------------------------- text
\* Text is a sequence of characters.  Of the characters that are not printable
\* the model's texts hold these:
NUL == "\\x00"
US == "\\x1f"
DEL == "\\x7f"

\* str.isspace(): US, the unit separator, is whitespace and a control character
isspace(c) == c \in {" ", "\n", "\t", "\r", US}

\* the class [\x00-\x08\x0B\x0C\x0E-\x1F\x7F] of sanitize_text, line 49
iscontrol(c) == c \in {NUL, US, DEL}

RECURSIVE lstrip(_)
lstrip(t) == IF t # << >> /\ isspace(Head(t)) THEN lstrip(Tail(t)) ELSE t

RECURSIVE rstrip(_)
rstrip(t) ==
    IF t # << >> /\ isspace(t[Len(t)]) THEN rstrip(SubSeq(t, 1, Len(t) - 1)) ELSE t

\* str.strip()
strip(t) == rstrip(lstrip(t))

Letters ==
    { "a", "b", "c", "d", "e", "f", "g", "h", "i", "j", "k", "l", "m", "n", "o", "p",
      "q", "r", "s", "t", "u", "v", "w", "x", "y", "z", "Y", "E", "S", "N", "O" }
Digits == {"0", "1", "2", "3", "4", "5", "6", "7", "8", "9"}

\* \w, and the class [a-zA-Z0-9_], on the model's characters
isword(c) == c \in Letters \cup Digits \cup {"_"}

\* n times the character c
Repeat(c, n) == [i \in 1..n |-> c]

\* Optional[...]: None, or the value
None == << >>
Some(v) == <<v>>

\* How a call ends: it returns a value or raises an exception.
Return(v) == [raises |-> "", value |-> v]
Raise(e) == [raises |-> e, value |-> << >>]

\* ------------------------------------------------------------- validation
MAX_REMINDER_LENGTH == 1000
MIN_REMINDER_LENGTH == 1

notcontrol(c) == ~iscontrol(c)

\* sanitize_text: strip, then drop the control characters
sanitize_text(text) ==
    IF text = << >> THEN << >> ELSE SelectSeq(strip(text), notcontrol)

\* pattern.search(text) for a pattern that is a literal, under re.IGNORECASE
search(p, text) ==
    \E i \in 1..(Len(text) - Len(p) + 1) : lower(SubSeq(text, i, i + Len(p) - 1)) = p

\* re.compile(r'on\w+\s*=', re.IGNORECASE).search(text)
search_on_event(text) ==
    \E i \in 1..(Len(text) - 3) :
        /\ lower(SubSeq(text, i, i + 1)) = <<"o", "n">>
        /\ \E j \in (i + 2)..(Len(text) - 1) :
              /\ \A k \in (i + 2)..j : isword(text[k])
              /\ \E m \in (j + 1)..Len(text) :
                    /\ \A k \in (j + 1)..(m - 1) : isspace(text[k])
                    /\ text[m] = "="

\* SUSPICIOUS_PATTERNS, lines 23-29: whether one of them is found in text
SUSPICIOUS_PATTERNS(text) ==
    \/ search(<<"<", "s", "c", "r", "i", "p", "t">>, text)
    \/ search(<<"j", "a", "v", "a", "s", "c", "r", "i", "p", "t", ":">>, text)
    \/ search(<<"d", "a", "t", "a", ":">>, text)
    \/ search(<<"v", "b", "s", "c", "r", "i", "p", "t", ":">>, text)
    \/ search_on_event(text)

\* The upper bound tested with >=: a text of 1000 characters is turned down.
validate_reminder_text_off_by_one(text) ==
    IF text = << >> THEN Raise("ValidationError")
    ELSE LET clean == sanitize_text(text) IN
         IF Len(clean) < MIN_REMINDER_LENGTH THEN Raise("ValidationError")
         ELSE IF Len(clean) >= MAX_REMINDER_LENGTH THEN Raise("ValidationError")
         ELSE IF SUSPICIOUS_PATTERNS(clean) THEN Raise("ValidationError")
         ELSE Return(clean)

validate_reminder_text(text) ==
    IF text = << >> THEN Raise("ValidationError")
    ELSE LET clean == sanitize_text(text) IN
         IF Len(clean) < MIN_REMINDER_LENGTH THEN Raise("ValidationError")
         ELSE IF Len(clean) > MAX_REMINDER_LENGTH THEN Raise("ValidationError")
         ELSE IF SUSPICIOUS_PATTERNS(clean) THEN Raise("ValidationError")
         ELSE Return(clean)

\* re.match(r'^[a-zA-Z0-9_]{1,32}$', username): $ matches at the end and before
\* a newline that ends the text
match_username(username) ==
    LET body == IF username # << >> /\ username[Len(username)] = "\n"
                THEN SubSeq(username, 1, Len(username) - 1) ELSE username IN
    \/ Len(username) \in 1..32 /\ \A i \in DOMAIN username : isword(username[i])
    \/ Len(body) \in 1..32 /\ \A i \in DOMAIN body : isword(body[i])

\* validate_username without the return of line 188: the empty name goes on to
\* the pattern.
validate_username_no_empty_case(username) ==
    IF username = None THEN Return(None)
    ELSE LET clean == sanitize_text(username[1]) IN
         IF ~match_username(clean) THEN Raise("ValidationError")
         ELSE Return(Some(clean))

\* validate_username(username), username an Optional[str]
validate_username(username) ==
    IF username = None THEN Return(None)
    ELSE LET clean == sanitize_text(username[1]) IN
         IF clean = << >> THEN Return(None)
         ELSE IF ~match_username(clean) THEN Raise("ValidationError")
         ELSE Return(Some(clean))

\* ------------------------------------------------------------- Init
Init ==
    /\ now = 0
    /\ db = << >>
    /\ nextId = 1
    /\ pc = [w \in Workers |-> "down"]
    /\ now_utc = [w \in Workers |-> 0]
    /\ cur = [w \in Workers |-> NoCur]
    /\ success = [w \in Workers |-> FALSE]
    /\ task_state = [w \in Workers |-> "PENDING"]
    /\ delivered = [r \in DocIds |-> 0]
    /\ claimants = [r \in DocIds |-> {}]
    /\ attempted = [w \in Workers |-> {}]
    /\ conv = [u \in Users |-> "END"]
    /\ last = NoUpdate
    /\ users = << >>
    /\ call = NoCall
    /\ setconv = [u \in Users |-> "END"]
    /\ user_data = [u \in Users |-> NoData]
    /\ awaiting = NoAwait

\* ------------------------------------------------------------- clock
Tick ==
    /\ now < MaxTime
    /\ now' = now + 1
    /\ UNCHANGED <<db, nextId, workerVars, delivered, claimants, botVars, libVars, chatVars>>

\* ------------------------------------------------------------- celery worker
\* worker_ready: cleanup_stale_processing_locks, then the worker takes tasks.
\* An exception of update_many (raises) is logged and swallowed, lines 42-43.
cleanup_stale_processing_locks(w, raises) ==
    /\ pc[w] = "down"
    /\ pc' = [pc EXCEPT ![w] = "idle"]
    /\ IF raises
       THEN UNCHANGED <<db, claimants>>
       ELSE /\ db' = cleanup_update_many(db)
            /\ claimants' = Unlocked(claimants, db')
    /\ UNCHANGED <<now, nextId, now_utc, cur, success, task_state, delivered, attempted,
                    botVars, libVars, chatVars>>

\* The beat schedule fires check_reminders, which calls send_due_reminders:
\* now_utc is read once, before the loop.
check_reminders(w) ==
    /\ pc[w] = "idle"
    /\ pc' = [pc EXCEPT ![w] = "claim"]
    /\ now_utc' = [now_utc EXCEPT ![w] = now]
    /\ task_state' = [task_state EXCEPT ![w] = "PENDING"]
    /\ attempted' = [attempted EXCEPT ![w] = {}]
    /\ UNCHANGED <<now, db, nextId, cur, success, delivered, claimants, botVars, libVars, chatVars>>

\* The pass is over: its locals are gone.
EndPass(w, state) ==
    /\ pc' = [pc EXCEPT ![w] = "idle"]
    /\ now_utc' = [now_utc EXCEPT ![w] = 0]
    /\ cur' = [cur EXCEPT ![w] = NoCur]
    /\ success' = [success EXCEPT ![w] = FALSE]
    /\ task_state' = [task_state EXCEPT ![w] = state]
    /\ attempted' = [attempted EXCEPT ![w] = {}]

\* reminder["user_id"] and reminder["reminder"], lines 82-83, raise KeyError on a
\* document that lacks the field.
has_fields(d) == d.reminder # NoField

\* The top of the while loop: find_one_and_update, atomic in the database, and
\* the reads of the document it returned.  When the query or a read raises, the
\* outer except of line 115 raises DatabaseError.
Claim(w, raises) ==
    /\ pc[w] = "claim"
    /\ \/ \E r \in DOMAIN db :
            /\ ~raises
            /\ claim_filter(db[r], now_utc[w])
            /\ db' = update_one(db, r, [processing |-> "true"])
            /\ claimants' = [claimants EXCEPT ![r] = @ \cup {w}]
            /\ IF has_fields(db[r])
               THEN /\ cur' = [cur EXCEPT ![w] = [id |-> r, user_id |-> db[r].user_id,
                                                  reminder |-> db[r].reminder]]
                    /\ pc' = [pc EXCEPT ![w] = "send"]
                    /\ attempted' = [attempted EXCEPT ![w] = @ \cup {r}]
                    /\ UNCHANGED <<now_utc, success, task_state>>
               ELSE EndPass(w, "FAILURE")
       \/ /\ raises \/ \A r \in DOMAIN db : ~claim_filter(db[r], now_utc[w])
          /\ EndPass(w, IF raises THEN "FAILURE" ELSE "SUCCESS")
          /\ UNCHANGED <<db, claimants>>
    /\ UNCHANGED <<now, nextId, delivered, botVars, libVars, chatVars>>

\* asyncio.run(_send_telegram_message(user_id, text)): True when send_message
\* returned, False when it raised.
Send(w) ==
    /\ pc[w] = "send"
    /\ pc' = [pc EXCEPT ![w] = "record"]
    /\ \/ /\ success' = [success EXCEPT ![w] = TRUE]
          /\ delivered' = [delivered EXCEPT ![cur[w].id] = Min(@ + 1, MaxCount)]
       \/ /\ success' = [success EXCEPT ![w] = FALSE]
          /\ UNCHANGED delivered
    /\ UNCHANGED <<now, db, nextId, now_utc, cur, task_state, claimants, attempted,
                    botVars, libVars, chatVars>>

\* One write for both branches, {"sent": success, "processing": False}: a failed
\* send writes sent False.
outcome_fields_writes_sent(ok) == [sent |-> ok, processing |-> "false"]

\* The failure branch marking the document sent as well.
outcome_fields_always_sent(ok) == [sent |-> TRUE, processing |-> "false"]

\* The failure branch without its release of the lock.
outcome_fields_keeps_lock(ok) ==
    IF ok THEN [sent |-> TRUE, processing |-> "false"]
          ELSE [processing |-> "true"]

\* What the outcome write sets, lines 92-95 and 102-105.
outcome_fields(ok) ==
    IF ok THEN [sent |-> TRUE, processing |-> "false"]
          ELSE [processing |-> "false"]

NextCandidate(w) ==
    /\ pc' = [pc EXCEPT ![w] = "claim"]
    /\ cur' = [cur EXCEPT ![w] = NoCur]
    /\ success' = [success EXCEPT ![w] = FALSE]
    /\ UNCHANGED <<now_utc, task_state, attempted>>

\* The outcome write; when it raises, control goes to the except of line 107.
Record(w, raises) ==
    /\ pc[w] = "record"
    /\ IF raises
       THEN /\ pc' = [pc EXCEPT ![w] = "release"]
            /\ UNCHANGED <<db, claimants, now_utc, cur, success, task_state, attempted>>
       ELSE /\ db' = update_one(db, cur[w].id, outcome_fields(success[w]))
            /\ claimants' = Unlocked(claimants, db')
            /\ NextCandidate(w)
    /\ UNCHANGED <<now, nextId, delivered, botVars, libVars, chatVars>>

\* Lines 107-113: release the lock on error; when this write raises too the
\* outer except raises DatabaseError and the pass is over.
Release(w, raises) ==
    /\ pc[w] = "release"
    /\ IF raises
       THEN /\ EndPass(w, "FAILURE")
            /\ UNCHANGED <<db, claimants>>
       ELSE /\ db' = update_one(db, cur[w].id, [processing |-> "false"])
            /\ claimants' = Unlocked(claimants, db')
            /\ NextCandidate(w)
    /\ UNCHANGED <<now, nextId, delivered, botVars, libVars, chatVars>>

\* The worker process is killed, wherever it is.
Crash(w) ==
    /\ pc[w] # "down"
    /\ pc' = [pc EXCEPT ![w] = "down"]
    /\ now_utc' = [now_utc EXCEPT ![w] = 0]
    /\ cur' = [cur EXCEPT ![w] = NoCur]
    /\ success' = [success EXCEPT ![w] = FALSE]
    /\ task_state' = [task_state EXCEPT ![w] = "PENDING"]
    /\ attempted' = [attempted EXCEPT ![w] = {}]
    /\ UNCHANGED <<now, db, nextId, delivered, claimants, botVars, libVars, chatVars>>

\* ------------------------------------------------------------- dispatch
\* ApplicationBuilder().token(API_KEY).build(), bot.py line 26: concurrent_updates
\* is not set, so the application takes the next update from its queue when the
\* handler of the one before has returned.
Dispatching == awaiting = NoAwait

\* bot.py lines 29-34: the handlers are in one group and the first that matches
\* takes the update.  set_reminder_handler is added before clear_all_handler: a
\* text message or /cancel is its own whenever its conversation is active.
SetReminderActive(u) == setconv[u] # "END"

\* ------------------------------------------------------------- set reminder
\* handle_insert, reached from handle_date with a parsed time after now:
\* insert_one with sent False and no processing field.  When insert_one raises
\* the apology is replied.
new_document(u, t, d) ==
    [user_id |-> u, reminder |-> t, reminder_date |-> d, recurrence |-> "none",
     sent |-> FALSE, processing |-> "absent"]

handle_insert(u, t, d, raises) ==
    /\ Dispatching
    /\ nextId <= MaxDocs
    /\ d > now
    /\ IF raises
       THEN /\ UNCHANGED <<db, nextId>>
            /\ last' = Exchange(u, "handle_insert", << >>, "Sorry, something went wrong", 0)
       ELSE /\ db' = [r \in DOMAIN db \cup {nextId} |->
                        IF r = nextId THEN new_document(u, t, d) ELSE db[r]]
            /\ nextId' = nextId + 1
            /\ last' = Exchange(u, "handle_insert", << >>, "Got it! Reminder set", 0)
    /\ UNCHANGED <<now, workerVars, delivered, claimants, conv, libVars, chatVars>>

\* ------------------------------------------------------------- clear all
\* delete_many({}): every document matches.
delete_filter_everyone(d, u) == TRUE

\* The filter of delete_many, clear_all_handler.py line 35.
delete_filter(d, u) == d.user_id = u

\* /clearall, the entry point: taken only when the conversation is not active.
confirm_clear(u) ==
    /\ Dispatching
    /\ conv[u] = "END"
    /\ conv' = [conv EXCEPT ![u] = "CONFIRM_DELETE"]
    /\ last' = Exchange(u, "confirm_clear", << >>, "Are you sure", 0)
    /\ UNCHANGED <<now, db, nextId, workerVars, delivered, claimants, libVars, chatVars>>

\* A text message in CONFIRM_DELETE.  When delete_many raises, the handler
\* raises: nothing is replied and the conversation keeps its state.
clearall(u, t, raises) ==
    /\ Dispatching
    /\ ~SetReminderActive(u)
    /\ conv[u] = "CONFIRM_DELETE"
    /\ IF lower(t) = yes
       THEN IF raises
            THEN /\ last' = Exchange(u, "clearall", t, "", 0)
                 /\ UNCHANGED <<db, claimants, conv>>
            ELSE LET gone == {r \in DOMAIN db : delete_filter(db[r], u)} IN
                 /\ db' = [r \in DOMAIN db \ gone |-> db[r]]
                 /\ claimants' = Unlocked(claimants, db')
                 /\ last' = Exchange(u, "clearall", t, "All your reminders cleared",
                                     Cardinality(gone))
                 /\ conv' = [conv EXCEPT ![u] = "END"]
       ELSE IF lower(t) = no
       THEN /\ last' = Exchange(u, "clearall", t, "Cancelled.", 0)
            /\ conv' = [conv EXCEPT ![u] = "END"]
            /\ UNCHANGED <<db, claimants>>
       ELSE /\ last' = Exchange(u, "clearall", t, "Invalid input", 0)
            /\ UNCHANGED <<db, claimants, conv>>
    /\ UNCHANGED <<now, nextId, workerVars, delivered, libVars, chatVars>>

\* /cancel in CONFIRM_DELETE, the fallback: lambda u, c: ConversationHandler.END.
\* The callback is not a coroutine function: the handler awaits what it returns,
\* an int, which raises TypeError; nothing is replied and the conversation keeps
\* its state.
cancel_clear(u) ==
    /\ Dispatching
    /\ ~SetReminderActive(u)
    /\ conv[u] = "CONFIRM_DELETE"
    /\ last' = Exchange(u, "cancel", << >>, "", 0)
    /\ UNCHANGED <<now, db, nextId, workerVars, delivered, claimants, conv, libVars,
                    chatVars>>

\* ------------------------------------------------------------- set timezone
Asia_Singapore == <<"A", "s", "i", "a", "/", "S", "i", "n", "g", "a", "p", "o", "r", "e">>
Europe_Paris == <<"E", "u", "r", "o", "p", "e", "/", "P", "a", "r", "i", "s">>
UTC == <<"U", "T", "C">>
BadZone_Nope == <<"B", "a", "d", "Z", "o", "n", "e", "/", "N", "o", "p", "e">>

\* zoneinfo.available_timezones(): of its names, those the model's users send
VALID_TIMEZONES == {Asia_Singapore, Europe_Paris, UTC}

MAX_TIMEZONE_LENGTH == 50

\* A name of n characters that names no zone.
Filler(n) == [i \in 1..n |-> "x"]

\* context.args of /settimezone: the words after the command.  (A word holds no
\* whitespace: the strip of line 64 meets none.)
TzArgs ==
    { << >>, <<Asia_Singapore>>, <<Europe_Paris>>, <<UTC>>, <<BadZone_Nope>>,
      <<Europe_Paris, UTC>>,
      <<Filler(MAX_TIMEZONE_LENGTH)>>, <<Filler(MAX_TIMEZONE_LENGTH + 1)>> }

\* What ZoneInfo(tz_input) does, lines 81-92: it returns, or raises
\* ZoneInfoNotFoundError, or raises something else.
ZoneInfoOutcomes == {"ok", "ZoneInfoNotFoundError", "Exception"}

\* users.find_one({"user_id": u}): the first matching record, << >> when none
find_one(coll, u) ==
    LET hits == {i \in DOMAIN coll : coll[i].user_id = u} IN
    IF hits = {} THEN << >>
    ELSE <<coll[CHOOSE i \in hits : \A j \in hits : i <= j]>>

\* get_user_timezone without the return of line 122: nothing (None) comes back
\* when there is no record or when the lookup raises.
get_user_timezone_no_fallback(coll, u, raises) ==
    IF raises THEN << >>
    ELSE LET user == find_one(coll, u) IN
         IF user # << >> THEN user[1].timezone ELSE << >>

\* get_user_timezone: the stored zone; the default when there is no record or
\* when the lookup raises (the exception is logged and swallowed).
get_user_timezone(coll, u, raises) ==
    IF raises THEN Asia_Singapore
    ELSE LET user == find_one(coll, u) IN
         IF user # << >> THEN user[1].timezone ELSE Asia_Singapore

\* insert_one in place of the upsert: every call adds a record.
users_insert_one(coll, u, fields) ==
    Append(coll, [user_id |-> u, timezone |-> fields.timezone,
                  updated_at |-> fields.updated_at])

\* users.update_one({"user_id": u}, {"$set": fields}, upsert=True): the first
\* matching record is updated; when none matches one is inserted.
users_update_one(coll, u, fields) ==
    LET hits == {i \in DOMAIN coll : coll[i].user_id = u} IN
    IF hits = {}
    THEN Append(coll, [user_id |-> u, timezone |-> fields.timezone,
                       updated_at |-> fields.updated_at])
    ELSE LET first == CHOOSE i \in hits : \A j \in hits : i <= j IN
         [coll EXCEPT ![first] = [@ EXCEPT !.timezone = fields.timezone,
                                           !.updated_at = fields.updated_at]]

\* set_user_timezone: the collection after the call
set_user_timezone(coll, u, tz_string, t) ==
    users_update_one(coll, u, [timezone |-> tz_string, updated_at |-> t])

Current == "Your current timezone is"
TooLong == "Timezone name is too long. Please try again."
Invalid == "Invalid timezone"
NotAvailable == "is not available on this system."
ErrorOccurred == "An error occurred. Please try again."
SetOk == "Timezone successfully set to"
SaveFailed == "Failed to save timezone settings. Please try again."

TzReply(u, args, rep, z) == [Exchange(u, "settimezone", args, rep, 0) EXCEPT !.tz = z]

\* The validation without the lookup in VALID_TIMEZONES.
tz_rejection_no_lookup(tz_input, zi) ==
    IF Len(tz_input) > MAX_TIMEZONE_LENGTH THEN TooLong
    ELSE IF zi = "ZoneInfoNotFoundError" THEN NotAvailable
    ELSE IF zi = "Exception" THEN ErrorOccurred
    ELSE ""

\* Lines 66-92: the reply that rejects tz_input, "" when it is accepted.
tz_rejection(tz_input, zi) ==
    IF Len(tz_input) > MAX_TIMEZONE_LENGTH THEN TooLong
    ELSE IF tz_input \notin VALID_TIMEZONES THEN Invalid
    ELSE IF zi = "ZoneInfoNotFoundError" THEN NotAvailable
    ELSE IF zi = "Exception" THEN ErrorOccurred
    ELSE ""

\* /settimezone: zi is what ZoneInfo does with the name, raises whether the
\* database operation of the call (the lookup or the upsert) raises.
settimezone(u, args, zi, raises) ==
    /\ Dispatching
    /\ IF args = << >>
       THEN /\ last' = TzReply(u, args, Current, get_user_timezone(users, u, raises))
            /\ UNCHANGED users
       ELSE LET tz_input == strip(args[1]) IN
            IF tz_rejection(tz_input, zi) # ""
            THEN /\ last' = TzReply(u, args, tz_rejection(tz_input, zi),
                                    IF tz_rejection(tz_input, zi) \in {Invalid, NotAvailable}
                                    THEN tz_input ELSE << >>)
                 /\ UNCHANGED users
            ELSE IF raises
            THEN /\ last' = TzReply(u, args, SaveFailed, << >>)
                 /\ UNCHANGED users
            ELSE /\ users' = set_user_timezone(users, u, tz_input, now)
                 /\ last' = TzReply(u, args, SetOk, tz_input)
    /\ UNCHANGED <<now, db, nextId, workerVars, delivered, claimants, conv, call, chatVars>>

\* ------------------------------------------------------------- specification
\* The dispatch workers beside the bot: every worker, set-reminder insertions
\* and a confirmed clear-all; any database operation may raise.
Next ==
    \/ Tick
    \/ \E w \in Workers, raises \in BOOLEAN :
          \/ cleanup_stale_processing_locks(w, raises)
          \/ check_reminders(w)
          \/ Claim(w, raises)
          \/ Send(w)
          \/ Record(w, raises)
          \/ Release(w, raises)
          \/ Crash(w)
    \/ \E u \in Users, t \in Texts, d \in Dates, raises \in BOOLEAN :
          handle_insert(u, t, d, raises)
    \/ confirm_clear(1)
    \/ \E raises \in BOOLEAN : clearall(1, yes, raises)

Spec == Init /\ [][Next]_vars

\* The same with a database that never raises: only passes, startup hooks,
\* crashes and bot commands.  (Release is the except branch: it is not reached.)
NextReliable ==
    \/ Tick
    \/ \E w \in Workers :
          \/ cleanup_stale_processing_locks(w, FALSE)
          \/ check_reminders(w)
          \/ Claim(w, FALSE)
          \/ Send(w)
          \/ Record(w, FALSE)
          \/ Crash(w)
    \/ \E u \in Users, t \in Texts, d \in Dates : handle_insert(u, t, d, FALSE)
    \/ confirm_clear(1)
    \/ clearall(1, yes, FALSE)

SpecReliable == Init /\ [][NextReliable]_vars

\* The startup hook on any collection: every document the collection can hold,
\* locked or not, sent or not.
\* (processing false is what a release writes: a seeded document has the field
\* true or does not have it; the hook's second run meets the false ones.)
Documents ==
    [user_id : Users, reminder : Texts, reminder_date : Dates, sent : BOOLEAN,
     processing : {"absent", "true"}]

\* A collection of up to MaxDocs documents drawn from docs, before any worker
\* is up.
Seeded(docs) ==
    /\ now = 0
    /\ \E k \in 0..MaxDocs : /\ db \in [1..k -> docs]
                             /\ nextId = k + 1
    /\ pc = [w \in Workers |-> "down"]
    /\ now_utc = [w \in Workers |-> 0]
    /\ cur = [w \in Workers |-> NoCur]
    /\ success = [w \in Workers |-> FALSE]
    /\ task_state = [w \in Workers |-> "PENDING"]
    /\ delivered = [r \in DocIds |-> 0]
    /\ claimants = [r \in DocIds |-> {}]
    /\ attempted = [w \in Workers |-> {}]
    /\ conv = [u \in Users |-> "END"]
    /\ last = NoUpdate
    /\ users = << >>
    /\ call = NoCall
    /\ setconv = [u \in Users |-> "END"]
    /\ user_data = [u \in Users |-> NoData]
    /\ awaiting = NoAwait

InitAny == Seeded(Documents)

NextCleanup ==
    \E w \in Workers :
        \/ \E raises \in BOOLEAN : cleanup_stale_processing_locks(w, raises)
        \/ Crash(w)

SpecCleanup == InitAny /\ [][NextCleanup]_vars

\* One worker's passes over a collection that is not added to, with a database
\* that never raises.  The worker process keeps running: a pass that can take
\* its next step takes it.
PassStep == Claim(1, FALSE) \/ Send(1) \/ Record(1, FALSE)

NextPass ==
    \/ Tick
    \/ cleanup_stale_processing_locks(1, FALSE)
    \/ check_reminders(1)
    \/ PassStep

SpecPass == InitAny /\ [][NextPass]_vars /\ WF_vars(PassStep)

\* One worker's passes over any stored collection: a document may lack its
\* reminder field, and any database operation may raise.
StoredDocuments ==
    [user_id : Users, reminder : Texts \cup {NoField}, reminder_date : Dates,
     sent : BOOLEAN, processing : {"absent", "true"}]

InitStored == Seeded(StoredDocuments)

NextStored ==
    \/ Tick
    \/ \E raises \in BOOLEAN :
          \/ cleanup_stale_processing_locks(1, raises)
          \/ Claim(1, raises)
          \/ Record(1, raises)
          \/ Release(1, raises)
    \/ check_reminders(1)
    \/ Send(1)

SpecStored == InitStored /\ [][NextStored]_vars

\* One worker's passes while the users of Blocked have blocked the bot:
\* send_message to them raises Forbidden every time, to the others it returns.
Blocked == {2}

SendAs(w) == Send(w) /\ success'[w] = (cur[w].user_id \notin Blocked)

WorkerStep ==
    \/ cleanup_stale_processing_locks(1, FALSE)
    \/ check_reminders(1)
    \/ Claim(1, FALSE)
    \/ SendAs(1)
    \/ Record(1, FALSE)

NextDelivery == Tick \/ WorkerStep

\* The worker comes up, the beat schedule keeps firing check_reminders and a
\* running pass takes its next step.
SpecDelivery == InitAny /\ [][NextDelivery]_vars /\ WF_vars(WorkerStep)

\* The bot's /settimezone command alone: every user, every argument list.
NextTimezone ==
    \/ Tick
    \/ \E u \in Users, args \in TzArgs, zi \in ZoneInfoOutcomes, raises \in BOOLEAN :
          settimezone(u, args, zi, raises)

SpecTimezone == Init /\ [][NextTimezone]_vars

\* One worker process over a collection of unlocked documents, with a database
\* whose operations may raise, sends that may fail and a worker that may be
\* killed.  The worker is started whenever it is down, the beat schedule keeps
\* firing check_reminders and a running pass takes its next step; a database
\* operation tried again and again does not raise every time, a send tried again
\* and again for a reminder does not fail every time, and neither does the
\* outcome write that follows a successful send.
UnlockedDocuments ==
    [user_id : Users, reminder : Texts, reminder_date : Dates, sent : BOOLEAN,
     processing : {"absent"}]

InitEventual == Seeded(UnlockedDocuments)

StartWorker == \E raises \in BOOLEAN : cleanup_stale_processing_locks(1, raises)

RunPass ==
    \/ Send(1)
    \/ \E raises \in BOOLEAN : Claim(1, raises) \/ Record(1, raises) \/ Release(1, raises)

SendSucceeds(w, r) == Send(w) /\ cur[w].id = r /\ success'[w]

RecordSent(w, r) == Record(w, FALSE) /\ cur[w].id = r /\ success[w]

NextEventual ==
    \/ Tick
    \/ StartWorker
    \/ check_reminders(1)
    \/ RunPass
    \/ Crash(1)

FairEventual ==
    /\ WF_vars(StartWorker) /\ SF_vars(cleanup_stale_processing_locks(1, FALSE))
    /\ SF_vars(check_reminders(1))
    /\ WF_vars(RunPass)
    /\ SF_vars(Claim(1, FALSE)) /\ SF_vars(Record(1, FALSE)) /\ SF_vars(Release(1, FALSE))
    /\ \A r \in DocIds : SF_vars(SendSucceeds(1, r)) /\ SF_vars(RecordSent(1, r))

SpecEventual == InitEventual /\ [][NextEventual]_vars /\ FairEventual

\* ------------------------------------------------------------- time conversion
\* A timezone-aware datetime is its wall-clock reading, in hours since
\* datetime.min (0001-01-01 00:00), and its utcoffset, in hours.  MAX_HOUR is
\* the hour of datetime.max (9999-12-31 23:00).
MAX_HOUR == 87649415

utcoffset(zone) ==
    CASE zone = UTC -> 0
      [] zone = Europe_Paris -> 1
      [] zone = Asia_Singapore -> 8

\* The instant a datetime denotes: its reading in UTC.
Instant(t) == t.wall - t.off

\* replace(tzinfo=zone) in the place of astimezone(zone): the reading is kept
\* and relabelled.
astimezone_relabels(t, zone) == Return([wall |-> t.wall, off |-> utcoffset(zone)])

\* datetime.astimezone(ZoneInfo(zone)) on an aware datetime: (self - offset),
\* then zone.fromutc of it; either raises OverflowError when its result is
\* outside datetime.min .. datetime.max.
astimezone(t, zone) ==
    LET utc == t.wall - t.off
        local == utc + utcoffset(zone) IN
    IF utc \notin 0..MAX_HOUR \/ local \notin 0..MAX_HOUR THEN Raise("OverflowError")
    ELSE Return([wall |-> local, off |-> utcoffset(zone)])

sgt_to_utc(time) == astimezone(time, UTC)

utc_to_sgt(time) == astimezone(time, Asia_Singapore)

\* The clock counts hours; its hour 0 is the hour ClockOrigin of datetime.  A
\* document's reminder_date is a UTC datetime, held as its hour on the clock.
ClockOrigin == MAX_HOUR \div 2
utcnow == [wall |-> ClockOrigin + now, off |-> 0]
clock_hour(dt) == dt.wall - ClockOrigin

\* validate_user_id(user_id) on the id of a sender, an integer.  (The bound of
\* line 159, 2**63 - 1, is above every id of the model.)
validate_user_id(user_id) ==
    IF user_id <= 0 THEN Raise("ValidationError")
    ELSE Return(user_id)

\* ------------------------------------------------------------- authorization
\* The names a "from config import ..." can bind: config.py's module-level names.
ConfigNames ==
    { "os", "sys", "Optional", "ConfigError", "get_env_var", "validate_config",
      "API_KEY", "GEMINI_API_KEY", "MONGO_URI", "REDIS_URL", "DATABASE_NAME",
      "REMINDERS_COLLECTION", "CELERY_BROKER_URL", "CELERY_RESULT_BACKEND",
      "DEFAULT_TIMEZONE" }

\* utils/auth.py line 8: from config import AUTHORIZED_USER_ID, DEFAULT_TIMEZONE.
\* The import raises ImportError unless config binds both names; then utils.auth,
\* and the handler modules that import restricted from it, do not load.
AuthImports == {"AUTHORIZED_USER_ID", "DEFAULT_TIMEZONE"}
auth_imported == AuthImports \subseteq ConfigNames

\* The authorized identity of the configuration (spec section 3).
AUTHORIZED_USER_ID == 1

Rejection == "You are not authorised to use this bot."
Welcome == "Hello! Use /setreminder to set a reminder or /help see more what I can do!"
NoUpcoming == "You have no upcoming reminders."
NoValid == "No valid reminders found."
Listing == "Your Upcoming Reminders"
RetrieveWentWrong == "Sorry, something went wrong retrieving your reminders."

\* What is replied: the text, the number it carries and its bullet lines.
Reply(rep, k, ls) == [reply |-> rep, n |-> k, lines |-> ls]

\* wrapped(update, context) of restricted(func): what is replied, given what
\* func would reply
restricted(u, body) ==
    IF u # AUTHORIZED_USER_ID THEN Reply(Rejection, 0, << >>) ELSE body

\* The body of start: the welcome message.
start_body == Reply(Welcome, 0, << >>)

\* What stands for the reminder_date field of a stored document that has none.
NoDate == 0 - 1

\* doc.get("reminder", "<no text>"), line 51
no_text == "<no text>"

\* escape_markdown(reminder, version=2): a backslash before every character
\* MarkdownV2 reserves.  Of the texts of the model "1.5l" and the default text
\* hold one.
escape_markdown(text) ==
    CASE text = "1.5l" -> "1\\.5l"
      [] text = no_text -> "<no text\\>"
      [] OTHER -> text

\* Lines 51-71, the body of the inner try for one document: the bullet line,
\* its escaped text and its date as Singapore reads it (an hour of the clock).
\* doc["reminder_date"] raises KeyError on a document without the field.
format_line(doc) ==
    LET reminder == IF doc.reminder = NoField THEN no_text ELSE doc.reminder IN
    IF doc.reminder_date = NoDate THEN Raise("KeyError")
    ELSE LET local_dt == astimezone([wall |-> ClockOrigin + doc.reminder_date, off |-> 0],
                                    Asia_Singapore) IN
         IF local_dt.raises # "" THEN local_dt
         ELSE Return([reminder |-> escape_markdown(reminder),
                      date |-> clock_hour(local_dt.value)])

\* The loop of lines 49-76 over the documents docs of coll, in the order the
\* cursor yields them: a document whose formatting raises is skipped.
RECURSIVE format_lines(_, _)
format_lines(coll, docs) ==
    IF docs = {} THEN << >>
    ELSE LET r == CHOOSE i \in docs : \A j \in docs : i <= j
             rest == format_lines(coll, docs \ {r}) IN
         IF format_line(coll[r]).raises # "" THEN rest
         ELSE <<format_line(coll[r]).value>> \o rest

\* The body of listreminders for sender u: collection.find({"user_id": user_id})
\* (raises: the query raises), then one line for each document.
listreminders_body(u, raises) ==
    IF validate_user_id(u).raises # "" THEN Reply(validate_user_id(u).raises, 0, << >>)
    ELSE IF raises THEN Reply(RetrieveWentWrong, 0, << >>)
    ELSE LET docs == {r \in DOMAIN db : db[r].user_id = validate_user_id(u).value}
             lines == format_lines(db, docs) IN
         IF docs = {} THEN Reply(NoUpcoming, 0, << >>)
         ELSE IF lines = << >> THEN Reply(NoValid, 0, << >>)
         ELSE Reply(Listing, Len(lines), lines)

\* A restricted command is sent to the bot.  The handler exists only if its
\* module loaded; otherwise nothing answers the update.
Handle(u, h, body) ==
    LET out == IF auth_imported THEN restricted(u, body) ELSE Reply("", 0, << >>) IN
    /\ Dispatching
    /\ last' = [Exchange(u, h, << >>, out.reply, out.n) EXCEPT !.lines = out.lines]
    /\ UNCHANGED <<now, db, nextId, workerVars, delivered, claimants, conv, libVars, chatVars>>

start(u) == Handle(u, "start", start_body)

listreminders(u, raises) == Handle(u, "listreminders", listreminders_body(u, raises))

\* The bot beside one dispatch worker: every command of every user.
NextBot ==
    \/ Tick
    \/ \E raises \in BOOLEAN :
          \/ cleanup_stale_processing_locks(1, raises)
          \/ Claim(1, raises)
          \/ Record(1, raises)
          \/ Release(1, raises)
    \/ check_reminders(1)
    \/ Send(1)
    \/ \E u \in Users :
          \/ \E t \in Texts, d \in Dates, raises \in BOOLEAN : handle_insert(u, t, d, raises)
          \/ confirm_clear(u)
          \/ \E t \in ConfirmTexts, raises \in BOOLEAN : clearall(u, t, raises)
          \/ cancel_clear(u)
          \/ start(u)
          \/ \E raises \in BOOLEAN : listreminders(u, raises)

SpecBot == Init /\ [][NextBot]_vars

\* /listreminders over any stored collection: a document may lack its reminder
\* or its reminder_date field, and its text may hold a reserved character; the
\* users also clear their reminders.
ListedDocuments ==
    [user_id : Users, reminder : Texts \cup {"1.5l", NoField},
     reminder_date : Dates \cup {NoDate}, sent : BOOLEAN, processing : {"absent"}]

InitListing == Seeded(ListedDocuments)

NextListing ==
    \/ Tick
    \/ \E u \in Users :
          \/ \E raises \in BOOLEAN : listreminders(u, raises)
          \/ confirm_clear(u)
          \/ clearall(u, yes, FALSE)

SpecListing == InitListing /\ [][NextListing]_vars

\* ------------------------------------------------------------- date parsers
\* What the generative-language backend does with a request: the client cannot
\* be made, the call raises, no structured result can be read from the
\* response, or a structured result is read: its valid flag and its timestamp,
\* None or a datetime whose tzinfo is None (naive) or an offset.
Response(st, v, ts) == [status |-> st, valid |-> v, ts |-> ts]

\* sanitize_for_llm(text) (spec section 4.4): the sanitization pass made before
\* text goes into a prompt.
sanitize_for_llm(text) == sanitize_text(text)

\* Lines 119-129 of gemini_dateparser.py, 127-138 of groq_dateparser.py: a naive
\* datetime gets the zone, an aware one is converted to it.
in_zone(dt, zone) ==
    IF dt.tzinfo = None THEN Return([wall |-> dt.wall, off |-> utcoffset(zone)])
    ELSE astimezone([wall |-> dt.wall, off |-> dt.tzinfo[1]], zone)

\* Any exception becomes the return of None.
none_on_exception(o) == IF o.raises # "" THEN Return(None) ELSE o

\* A DateParsingError is raised on; any other exception becomes the return of None.
none_unless_parsing_error(o) ==
    IF o.raises \notin {"", "DateParsingError"} THEN Return(None) ELSE o

\* Lines 54-58 and 60-64: a DateParsingError is raised on, any other exception
\* is raised as DateParsingError.
parsing_error_on_exception(o) == IF o.raises # "" THEN Raise("DateParsingError") ELSE o

\* A datetime that was returned, as the Optional[datetime] of the parser.
optional(o) == IF o.raises = "" THEN Return(Some(o.value)) ELSE o

\* _sync_gemini_call: the try of line 65 with the except of lines 135-137
\* around everything, the raises of lines 81 and 108 included.
_sync_gemini_call(user_input, user_timezone, backend) ==
    none_on_exception(
        IF backend.status = "client_fails" THEN Raise("DateParsingError")
        ELSE IF backend.status = "call_fails" THEN Raise("DateParsingError")
        ELSE IF backend.status = "absent" \/ ~backend.valid \/ backend.ts = None
        THEN Return(None)
        ELSE none_on_exception(optional(in_zone(backend.ts[1], user_timezone))))

gemini_dateparser(user_input, user_timezone, backend) ==
    IF user_input = << >> \/ strip(user_input) = << >> THEN Return(None)
    ELSE IF sanitize_for_llm(user_input) = << >> THEN Return(None)
    ELSE parsing_error_on_exception(
             _sync_gemini_call(sanitize_for_llm(user_input), user_timezone, backend))

\* _sync_groq_call: the zone is "Asia/Singapore"; a response whose content is
\* not the structured result raises inside the try of lines 95-118.
_sync_groq_call(user_input, backend) ==
    none_unless_parsing_error(
        IF backend.status = "client_fails" THEN Raise("DateParsingError")
        ELSE IF backend.status \in {"call_fails", "absent"} THEN Raise("DateParsingError")
        ELSE IF ~backend.valid \/ backend.ts = None THEN Return(None)
        ELSE none_on_exception(optional(in_zone(backend.ts[1], Asia_Singapore))))

groq_dateparser(user_input, backend) ==
    IF user_input = << >> \/ strip(user_input) = << >> THEN Return(None)
    ELSE IF sanitize_for_llm(user_input) = << >> THEN Return(None)
    ELSE parsing_error_on_exception(_sync_groq_call(sanitize_for_llm(user_input), backend))

\* ------------------------------------------------------------- set-reminder conversation
\* Each user talks to the bot in a private chat: the conversation key
\* (chat id, user id) and the key of context.user_data are the user.
MAX_DATE_INPUT_LENGTH == 200

\* the class [a-zA-Z0-9\s\.,!?\'"()-:;/@#\n\r] of validate_date_input, line 125:
\* )-: is the range from ")" to ":"
isdatechar(c) ==
    \/ c \in Letters \cup Digits
    \/ isspace(c)
    \/ c \in {".", ",", "!", "?", "'", "\"", "(", ")", "*", "+", "-", "/", ":", ";",
              "@", "#"}

validate_date_input(text) ==
    IF text = << >> THEN Raise("ValidationError")
    ELSE LET clean == sanitize_text(text) IN
         IF Len(clean) < 1 THEN Raise("ValidationError")
         ELSE IF Len(clean) > MAX_DATE_INPUT_LENGTH THEN Raise("ValidationError")
         ELSE IF SUSPICIOUS_PATTERNS(clean) THEN Raise("ValidationError")
         ELSE IF \E i \in DOMAIN clean : ~isdatechar(clean[i]) THEN Raise("ValidationError")
         ELSE Return(clean)

WhatReminder == "What would you like to be reminded of? Type /cancel to stop."
WhenRemind == "When should I remind you? Type /cancel to stop."
TryAgain == "Please try again."
WentWrong == "Something went wrong. Please try again."
NotUnderstood == "I couldn't understand the date. Please try again."
MustBeFuture == "The date must be in the future. Please enter a future date."
DateWentWrong == "Something went wrong processing the date. Please try again."
GotIt == "Got it! Reminder set for"
SaveWentWrong == "Sorry, something went wrong while saving your reminder. Please try again."
Cancelled == "Cancelled."

\* /setreminder, the entry point: taken when the user's conversation is not
\* active (allow_reentry is not set).
setreminder(u) ==
    /\ Dispatching
    /\ setconv[u] = "END"
    /\ setconv' = [setconv EXCEPT ![u] = "WAITING_FOR_REMINDER"]
    /\ last' = Exchange(u, "setreminder", << >>, WhatReminder, 0)
    /\ UNCHANGED <<now, db, nextId, workerVars, delivered, claimants, conv, libVars,
                    user_data, awaiting>>

\* context.user_data["reminder"] = reminder for every user, as if user_data were
\* one dictionary of the bot.
store_reminder_shared(data, u, reminder) ==
    [v \in DOMAIN data |-> [data[v] EXCEPT !.reminder = Some(reminder)]]

\* context.user_data["reminder"] = reminder, line 67
store_reminder(data, u, reminder) == [data EXCEPT ![u].reminder = Some(reminder)]

\* handle_reminder keeping the text as it was sent.
reminder_text_unsanitized(text) ==
    IF validate_reminder_text(text).raises # "" THEN validate_reminder_text(text)
    ELSE Return(text)

\* The text handle_reminder keeps, line 64.
reminder_text(text) == validate_reminder_text(text)

\* A text message in WAITING_FOR_REMINDER.
handle_reminder(u, text) ==
    /\ Dispatching
    /\ setconv[u] = "WAITING_FOR_REMINDER"
    /\ LET reminder == reminder_text(text) IN
       IF reminder.raises = ""
       THEN /\ user_data' = store_reminder(user_data, u, reminder.value)
            /\ setconv' = [setconv EXCEPT ![u] = "WAITING_FOR_DATE"]
            /\ last' = Exchange(u, "handle_reminder", text, WhenRemind, 0)
       ELSE /\ last' = Exchange(u, "handle_reminder", text,
                                IF reminder.raises = "ValidationError" THEN TryAgain
                                ELSE WentWrong, 0)
            /\ UNCHANGED <<setconv, user_data>>
    /\ UNCHANGED <<now, db, nextId, workerVars, delivered, claimants, conv, libVars,
                    awaiting>>

\* /cancel, the fallback of the set-reminder conversation, in either state.
cancel(u) ==
    /\ Dispatching
    /\ SetReminderActive(u)
    /\ setconv' = [setconv EXCEPT ![u] = "END"]
    /\ last' = Exchange(u, "cancel", << >>, Cancelled, 0)
    /\ UNCHANGED <<now, db, nextId, workerVars, delivered, claimants, conv, libVars,
                    user_data, awaiting>>

\* The future-check with <: a time that is now is taken.
not_future_allows_now(parsed_time, now_local) == Instant(parsed_time) < Instant(now_local)

\* parsed_time <= now_local, line 120: aware datetimes compare as instants
not_future(parsed_time, now_local) == Instant(parsed_time) <= Instant(now_local)

\* A text message in WAITING_FOR_DATE, up to the await of the parser, lines
\* 96-105: the text is validated and the user's zone looked up (raises: the
\* lookup raises).
handle_date(u, text, raises) ==
    /\ Dispatching
    /\ setconv[u] = "WAITING_FOR_DATE"
    /\ nextId <= MaxDocs
    /\ LET user_date == validate_date_input(text) IN
       IF user_date.raises # ""
       THEN /\ last' = Exchange(u, "handle_date", text, TryAgain, 0)
            /\ UNCHANGED awaiting
       ELSE /\ awaiting' = [user |-> u, user_date |-> user_date.value,
                            user_tz |-> get_user_timezone(users, u, raises)]
            /\ last' = Exchange(u, "handle_date", text, "", 0)
    /\ UNCHANGED <<now, db, nextId, workerVars, delivered, claimants, conv, libVars,
                    setconv, user_data>>

\* handle_insert going back to WAITING_FOR_DATE when nothing was inserted.
insert_returns_retry(inserted) == IF inserted THEN "END" ELSE "WAITING_FOR_DATE"

\* What handle_insert returns, lines 183, 188 and 196.
insert_returns(inserted) == "END"

\* handle_insert(update, context, parsed_time), lines 157-196, for sender u whose
\* Telegram username is username: the reply and the document to insert, if any.
\* raises: insert_one raises.
insert_outcome(data, u, username, raises) ==
    IF data.reminder = None \/ data.reminder_date = None
    THEN [reply |-> SaveWentWrong, doc |-> None]
    ELSE IF validate_user_id(u).raises # "" \/ validate_username(username).raises # ""
    THEN [reply |-> TryAgain, doc |-> None]
    ELSE IF raises THEN [reply |-> SaveWentWrong, doc |-> None]
    ELSE [reply |-> GotIt,
          doc |-> Some(new_document(validate_user_id(u).value, data.reminder[1],
                                    data.reminder_date[1]))]

\* collection.insert_one(doc)
insert_one(coll, id, doc) ==
    [r \in DOMAIN coll \cup {id} |-> IF r = id THEN doc ELSE coll[r]]

\* The parser has returned (backend is what the service answered): the rest of
\* handle_date, lines 105-139, handle_insert included.  The confirmation carries
\* parsed_time as the user's zone reads it.
handle_date_resumes(username, backend, raises) ==
    /\ ~Dispatching
    /\ awaiting' = NoAwait
    /\ LET u == awaiting.user
           parsed_time == gemini_dateparser(awaiting.user_date, awaiting.user_tz, backend)
           utc_time == sgt_to_utc(parsed_time.value[1])
           data == [user_data[u] EXCEPT !.reminder_date = Some(clock_hour(utc_time.value))]
           out == insert_outcome(data, u, username, raises)
       IN
       IF parsed_time.raises # "" \/ parsed_time.value = None
          \/ not_future(parsed_time.value[1], utcnow) \/ utc_time.raises # ""
       THEN /\ last' = Exchange(u, "handle_date", last.text,
                                IF parsed_time.raises # "" THEN DateWentWrong
                                ELSE IF parsed_time.value = None THEN NotUnderstood
                                ELSE IF not_future(parsed_time.value[1], utcnow)
                                THEN MustBeFuture
                                ELSE DateWentWrong, 0)
            /\ UNCHANGED <<db, nextId, setconv, user_data>>
       ELSE /\ user_data' = [user_data EXCEPT ![u] = data]
            /\ setconv' = [setconv EXCEPT ![u] = insert_returns(out.doc # None)]
            /\ last' = Exchange(u, "handle_insert", last.text, out.reply,
                                IF out.doc # None THEN clock_hour(parsed_time.value[1])
                                ELSE 0)
            /\ IF out.doc # None
               THEN /\ db' = insert_one(db, nextId, out.doc[1])
                    /\ nextId' = nextId + 1
               ELSE UNCHANGED <<db, nextId>>
    /\ UNCHANGED <<now, workerVars, delivered, claimants, conv, libVars>>

\* ------------------------------------------------------------- utility calls
\* Nothing else is going on: every variable but call is as Init leaves it.
Quiescent ==
    /\ now = 0
    /\ db = << >>
    /\ nextId = 1
    /\ pc = [w \in Workers |-> "down"]
    /\ now_utc = [w \in Workers |-> 0]
    /\ cur = [w \in Workers |-> NoCur]
    /\ success = [w \in Workers |-> FALSE]
    /\ task_state = [w \in Workers |-> "PENDING"]
    /\ delivered = [r \in DocIds |-> 0]
    /\ claimants = [r \in DocIds |-> {}]
    /\ attempted = [w \in Workers |-> {}]
    /\ conv = [u \in Users |-> "END"]
    /\ last = NoUpdate
    /\ users = << >>
    /\ setconv = [u \in Users |-> "END"]
    /\ user_data = [u \in Users |-> NoData]
    /\ awaiting = NoAwait

\* A call of function f on argument a that has not returned yet.
Pending(f, a) == [fn |-> f, arg |-> a, out |-> << >>]

\* The call under study ends with outcome o.
Ends(f, o) ==
    /\ call.fn = f
    /\ call.out = << >>
    /\ call' = [call EXCEPT !.out = <<o>>]
    /\ UNCHANGED <<now, db, nextId, workerVars, delivered, claimants, botVars, users, chatVars>>

\* Every text of at most MaxShort characters over these characters,
ShortAlphabet == {"a", "_", "!", "=", " ", "\n", NUL, US}
ShortTexts == UNION {[1..n -> ShortAlphabet] : n \in 0..MaxShort}

\* texts that hold a suspicious pattern, or nearly,
SuspiciousTexts ==
    { <<"<", "s", "c", "r", "i", "p", "t", ">">>,
      <<"j", "a", "v", "a", "s", "c", "r", "i", "p", "t", ":", "x">>,
      <<"d", "a", "t", "a", ":">>, <<"d", "a", "t", "a">>,
      <<"v", "b", "s", "c", "r", "i", "p", "t", ":">>,
      <<"o", "n", "e", "=">>, <<"O", "N", "e", "_", "1", " ", "\n", "=">>,
      <<"o", "n", "=">>, <<"o", "n", "e", "!", "=">>, <<"n", "o", "o", "n", "e">> }

\* and texts around MAX_REMINDER_LENGTH characters, some with characters that
\* sanitize_text takes away.
LongTexts ==
    { pre \o Repeat("a", n) \o post :
        pre \in {<< >>, <<" ">>, <<NUL>>},
        n \in (MAX_REMINDER_LENGTH - 1)..(MAX_REMINDER_LENGTH + 1),
        post \in {<< >>, <<"\n">>, <<NUL>>, <<"x">>} }

ReminderInputs == ShortTexts \cup SuspiciousTexts \cup LongTexts

NameTexts ==
    { <<"j", "o", "h", "n", "_", "d", "o", "e", "9", "9">>,
      <<"j", "o", "h", "n", " ", "d", "o", "e", "!">>,
      Repeat("a", 32), Repeat("a", 33), <<" ">> \o Repeat("N", 32) \o <<NUL>> }

UsernameInputs == {None} \cup {Some(t) : t \in ShortTexts \cup NameTexts}

InitValidation ==
    /\ Quiescent
    /\ call \in {Pending("validate_reminder_text", t) : t \in ReminderInputs}
                \cup {Pending("validate_username", a) : a \in UsernameInputs}

ValidateReminderText == Ends("validate_reminder_text", validate_reminder_text(call.arg))

ValidateUsername == Ends("validate_username", validate_username(call.arg))

NextValidation == ValidateReminderText \/ ValidateUsername

SpecValidation == InitValidation /\ [][NextValidation]_vars

\* Aware datetimes at the start, in the middle and at the end of datetime's
\* range, in several zones.
Datetimes ==
    [wall : (0..MaxSpan) \cup ((MAX_HOUR \div 2)..(MAX_HOUR \div 2 + MaxSpan))
                \cup ((MAX_HOUR - MaxSpan)..MAX_HOUR),
     off : {-5, 0, 1, 8}]

\* A conversion of a datetime and then, of what it returned, the conversion
\* back: call.fn is the one made first, call.out their outcomes in order.
InitTime ==
    /\ Quiescent
    /\ call \in {Pending(f, t) : f \in {"sgt_to_utc", "utc_to_sgt"}, t \in Datetimes}

\* Function f is the next to be applied, to the argument or to what the first
\* conversion returned.
Converts(f, g, o) ==
    /\ \/ call.fn = f /\ call.out = << >>
       \/ call.fn = g /\ Len(call.out) = 1 /\ call.out[1].raises = ""
    /\ call' = [call EXCEPT !.out = Append(@, o)]
    /\ UNCHANGED <<now, db, nextId, workerVars, delivered, claimants, botVars, users, chatVars>>

Operand == IF call.out = << >> THEN call.arg ELSE call.out[1].value

SgtToUtc == Converts("sgt_to_utc", "utc_to_sgt", sgt_to_utc(Operand))

UtcToSgt == Converts("utc_to_sgt", "sgt_to_utc", utc_to_sgt(Operand))

NextTime == SgtToUtc \/ UtcToSgt

SpecTime == InitTime /\ [][NextTime]_vars

\* Date texts, some empty before or after sanitization; what the backend
\* can answer; the zones of the users.
DateTexts == {<< >>, <<" ">>, <<NUL>>, <<"3", "p", "m">>, <<" ", "3", "p", "m", NUL>>}

Timestamps ==
    [wall : (MAX_HOUR \div 2)..(MAX_HOUR \div 2 + 1) \cup {MAX_HOUR},
     tzinfo : {None, Some(0), Some(8)}]

Responses ==
    {Response(st, FALSE, None) : st \in {"client_fails", "call_fails", "absent"}}
        \cup {Response("parsed", v, None) : v \in BOOLEAN}
        \cup {Response("parsed", v, Some(ts)) : v \in BOOLEAN, ts \in Timestamps}

\* One request, given to the Gemini integration and to the Groq integration.
InitDateParser ==
    /\ Quiescent
    /\ call \in {Pending("dateparser", [text |-> t, tz |-> z, backend |-> b])
                    : t \in DateTexts, z \in VALID_TIMEZONES, b \in Responses}

\* The outcomes in call.out: Gemini's, then Groq's.
GeminiDateparser ==
    /\ call.fn = "dateparser" /\ call.out = << >>
    /\ call' = [call EXCEPT !.out =
                   <<gemini_dateparser(call.arg.text, call.arg.tz, call.arg.backend)>>]
    /\ UNCHANGED <<now, db, nextId, workerVars, delivered, claimants, botVars, users, chatVars>>

GroqDateparser ==
    /\ call.fn = "dateparser" /\ Len(call.out) = 1
    /\ call' = [call EXCEPT !.out =
                   Append(@, groq_dateparser(call.arg.text, call.arg.backend))]
    /\ UNCHANGED <<now, db, nextId, workerVars, delivered, claimants, botVars, users, chatVars>>

NextDateParser == GeminiDateparser \/ GroqDateparser

SpecDateParser == InitDateParser /\ [][NextDateParser]_vars

\* ------------------------------------------------------------- the conversations
\* What the users type in a conversation: a text that sanitization changes, one
\* that is empty after it, and answers to the clear-all question.
ChatTexts == { <<" ", "3", "p", "m", NUL>>, <<NUL>>, yes, <<"N", "o">> }

\* from_user.username of an update: none, a name, or what is not a name.
Usernames == {None, Some(<<"j", "o", "e">>), Some(<<"j", "!">>)}

\* What the parser's backend answers: times around the clock's hours, naive, in
\* UTC or at +08:00.
DateTimestamps ==
    [wall : {ClockOrigin + 1, ClockOrigin + 9},
     tzinfo : {None, Some(0), Some(8)}]

DateResponses ==
    {Response("call_fails", FALSE, None), Response("parsed", FALSE, None)}
        \cup {Response("parsed", TRUE, Some(ts)) : ts \in DateTimestamps}

\* The bot alone, no worker up, with an empty collection that takes one more
\* document; user 2 has set the zone UTC.
InitChat ==
    /\ now = 0
    /\ db = << >>
    /\ nextId = MaxDocs
    /\ pc = [w \in Workers |-> "down"]
    /\ now_utc = [w \in Workers |-> 0]
    /\ cur = [w \in Workers |-> NoCur]
    /\ success = [w \in Workers |-> FALSE]
    /\ task_state = [w \in Workers |-> "PENDING"]
    /\ delivered = [r \in DocIds |-> 0]
    /\ claimants = [r \in DocIds |-> {}]
    /\ attempted = [w \in Workers |-> {}]
    /\ conv = [u \in Users |-> "END"]
    /\ last = NoUpdate
    /\ users = set_user_timezone(<< >>, 2, UTC, 0)
    /\ call = NoCall
    /\ setconv = [u \in Users |-> "END"]
    /\ user_data = [u \in Users |-> NoData]
    /\ awaiting = NoAwait

\* Every update of the two conversations, of both users, beside /start.
NextChat ==
    \/ Tick
    \/ \E u \in Users :
          \/ setreminder(u)
          \/ \E t \in ChatTexts : handle_reminder(u, t)
          \/ \E t \in ChatTexts, raises \in BOOLEAN : handle_date(u, t, raises)
          \/ cancel(u)
          \/ confirm_clear(u)
          \/ \E t \in ChatTexts, raises \in BOOLEAN : clearall(u, t, raises)
          \/ cancel_clear(u)
          \/ start(u)
    \/ \E username \in Usernames, backend \in DateResponses, raises \in BOOLEAN :
          handle_date_resumes(username, backend, raises)

SpecChat == InitChat /\ [][NextChat]_vars

\* ------------------------------------------------------------- properties
\* Worker w has claimed document r and not yet written its outcome.
InFlight(w, r) == pc[w] \in {"send", "record", "release"} /\ cur[w].id = r

\* This step is w's claim step returning document r.
Obtains(w, r) == pc[w] = "claim" /\ pc'[w] = "send" /\ cur'[w].id = r

\* This step is w's claim step finding no candidate (the break of line 79).
ObtainsNone(w) == pc[w] = "claim" /\ pc'[w] = "idle" /\ task_state'[w] = "SUCCESS"

\* This step completes w's attempt on the document it claimed: w goes on to
\* the next candidate.
MovesOn(w) == pc[w] \in {"record", "release"} /\ pc'[w] = "claim"

\* This step is w's startup hook with its update_many carried out.
HookRan(w) == pc[w] = "down" /\ pc'[w] = "idle" /\ db' = cleanup_update_many(db)

\* C1: every reminder is delivered to its user at most once, whatever the
\* interleaving of dispatch passes, startup hooks and worker crashes.
C1_AtMostOnceDelivery == \A r \in DocIds : delivered[r] <= 1

\* C2: the claim step is exclusive: a worker obtains a document only when its
\* processing is not true, the step makes it true, and of the workers racing
\* for a document since it was last unlocked exactly one has obtained it; a
\* worker whose claim step meets the locked document does not obtain it.
C2_ExclusiveClaim ==
    /\ [](\A r \in DocIds : Cardinality(claimants[r]) <= 1)
    /\ [][\A w \in Workers, r \in DocIds :
            Obtains(w, r) =>
                /\ r \in DOMAIN db
                /\ db[r].processing # "true"
                /\ db'[r].processing = "true"
                /\ claimants'[r] = {w}]_vars

\* Two workers are at the race for r: one has obtained it, the other is at its
\* claim step of a pass for which r is due and unsent, and finds no candidate.
C2_Witness ==
    \E w1 \in Workers, w2 \in Workers, r \in DOMAIN db :
        /\ w1 # w2
        /\ pc[w1] = "send" /\ cur[w1].id = r /\ claimants[r] = {w1}
        /\ pc[w2] = "claim"
        /\ db[r].reminder_date <= now_utc[w2] /\ ~db[r].sent
        /\ \A q \in DOMAIN db : ~claim_filter(db[q], now_utc[w2])

\* C3: in every state at most one worker has a delivery of a given reminder
\* in flight (between claiming it and writing its outcome).
C3_OneDeliveryInFlight ==
    \A r \in DocIds : Cardinality({w \in Workers : InFlight(w, r)}) <= 1

\* C4: sent never goes back: a document is inserted with sent false, and a
\* document whose sent is true keeps it while it is in the collection.
C4_SentMonotonic ==
    [][\A r \in DOMAIN db' :
         /\ r \notin DOMAIN db => db'[r].sent = FALSE
         /\ (r \in DOMAIN db /\ db[r].sent) => db'[r].sent]_vars

\* A sent document with a stale delivery still in flight: an outcome write is
\* about to land on a document that is already sent.
C4_Witness ==
    \E r \in DOMAIN db, w \in Workers :
        db[r].sent /\ InFlight(w, r) /\ pc[w] = "record" /\ ~success[w]

\* C5: a document with sent true has had a send that returned success; sends
\* that fail leave sent false.
C5_SentOnlyAfterSuccess ==
    \A r \in DOMAIN db : db[r].sent => delivered[r] >= 1

\* One document is sent after a successful send, and the send of another has
\* just failed: it was never delivered and is unsent.
C5_Witness ==
    \E r \in DOMAIN db, q \in DOMAIN db, w \in Workers :
        /\ db[r].sent /\ delivered[r] >= 1
        /\ q # r /\ delivered[q] = 0 /\ ~db[q].sent
        /\ pc[w] = "record" /\ cur[w].id = q /\ ~success[w]

\* C6: a pass claims a document only if it is due at the pass's now_utc,
\* unsent and not locked; and a pass stops for want of a candidate only when
\* no document is due at its now_utc, unsent and not locked.
C6_DueTimeEligibility ==
    [][\A w \in Workers :
         /\ \A r \in DocIds :
              Obtains(w, r) =>
                  /\ r \in DOMAIN db
                  /\ db[r].reminder_date <= now_utc[w]
                  /\ db[r].sent = FALSE
                  /\ db[r].processing \in {"absent", "false"}
         /\ ObtainsNone(w) =>
              \A r \in DOMAIN db :
                  \/ db[r].reminder_date > now_utc[w]
                  \/ db[r].sent
                  \/ db[r].processing = "true"]_vars

\* A pass holds a document that is due at its now_utc while a document that is
\* not yet due at that now_utc is left unclaimed.
C6_Witness ==
    \E w \in Workers, r \in DOMAIN db, q \in DOMAIN db :
        /\ pc[w] = "send" /\ cur[w].id = r
        /\ db[r].reminder_date <= now_utc[w]
        /\ db[q].reminder_date > now_utc[w]
        /\ db[q].processing = "absent" /\ ~db[q].sent

\* C7: when a worker goes on to the next candidate, the document it had
\* claimed is not locked (if it is still in the collection), whether the send
\* succeeded or failed; and after the startup hook's update no document has
\* processing true.
C7_LockReleased ==
    [][\A w \in Workers :
         /\ MovesOn(w) =>
              (cur[w].id \in DOMAIN db' => db'[cur[w].id].processing = "false")
         /\ HookRan(w) =>
              \A r \in DOMAIN db' : db'[r].processing # "true"]_vars

\* A worker is at the claim step again and the lock of a document that was
\* claimed, never delivered and is unsent has been released, while a document
\* that was delivered is sent and unlocked.
C7_Witness ==
    \E w \in Workers, r \in DOMAIN db, q \in DOMAIN db :
        /\ pc[w] = "claim"
        /\ delivered[r] = 0 /\ ~db[r].sent /\ db[r].processing = "false"
        /\ delivered[q] = 1 /\ db[q].sent /\ db[q].processing = "false"

\* C8: the startup hook's update sets processing false on every document
\* whose processing is true, whatever its sent, and changes nothing else.
C8_StartupCleanupFrame ==
    [][\A w \in Workers :
         HookRan(w) =>
             /\ DOMAIN db' = DOMAIN db
             /\ \A r \in DOMAIN db :
                  /\ db[r].processing = "true" => db'[r].processing = "false"
                  /\ db[r].processing # "true" => db'[r] = db[r]
                  /\ db'[r].sent = db[r].sent
                  /\ db'[r].user_id = db[r].user_id
                  /\ db'[r].reminder = db[r].reminder
                  /\ db'[r].reminder_date = db[r].reminder_date]_vars

\* The hook has run on a collection that held a locked sent document and a
\* document without the processing field: the first is unlocked and still
\* sent, the second still has no processing field.
C8_Witness ==
    /\ \E w \in Workers : pc[w] = "idle"
    /\ \E r \in DOMAIN db, q \in DOMAIN db :
          /\ db[r].sent /\ db[r].processing = "false"
          /\ db[q].processing = "absent"
    /\ \A r \in DOMAIN db : db[r].processing # "true"

\* C9: a "yes" in any letter case in CONFIRM_DELETE, when answered, deletes
\* exactly the sender's documents, replies the number deleted, ends the
\* conversation and leaves every other document as it was.
YesTexts == { <<"y", "e", "s">>, <<"Y", "E", "S">>, <<"Y", "e", "s">> }

C9_ClearAllOwnOnly ==
    [][\A u \in Users :
         ( /\ conv[u] = "CONFIRM_DELETE"
           /\ last' # last
           /\ last'.from = u /\ last'.cmd = "clearall"
           /\ last'.text \in YesTexts /\ last'.reply # "" )
         =>
         ( /\ last'.reply = "All your reminders cleared"
           /\ DOMAIN db' = {r \in DOMAIN db : db[r].user_id # u}
           /\ \A r \in DOMAIN db' : db'[r] = db[r]
           /\ last'.n = Cardinality({r \in DOMAIN db : db[r].user_id = u})
           /\ conv'[u] = "END" )]_vars

\* An upper-case "YES" deleted the sender's documents and another user's
\* document is still there.
C9_Witness ==
    /\ last.cmd = "clearall" /\ last.text = <<"Y", "E", "S">>
    /\ last.reply = "All your reminders cleared" /\ last.n >= 1
    /\ \E r \in DOMAIN db : db[r].user_id # last.from

\* C10: /start or /listreminders from anyone but the authorized user is
\* answered with the fixed rejection message, and the wrapped handler body
\* does not run for them.
C10_GuardRejects ==
    (last.cmd \in {"start", "listreminders"} /\ last.from # AUTHORIZED_USER_ID)
        => last.reply = Rejection

\* The preference records of user u, and the zones they hold.
Records(coll, u) == {i \in DOMAIN coll : coll[i].user_id = u}
Zones(coll, u) == {coll[i].timezone : i \in Records(coll, u)}

\* The zone on record for u: the default when there is no record.
OnRecord(coll, u) == IF Zones(coll, u) = {} THEN {Asia_Singapore} ELSE Zones(coll, u)

\* Records are never removed, and the zone held for a user changes only with a
\* confirmed /settimezone of that user, to the zone it names.
PreferenceFrame ==
    /\ \A i \in DOMAIN users : i \in DOMAIN users' /\ users'[i].user_id = users[i].user_id
    /\ \A u \in Users :
          Zones(users', u) # Zones(users, u) =>
              /\ last'.cmd = "settimezone" /\ last'.from = u /\ last'.reply = SetOk
              /\ Zones(users', u) = {last'.tz}

\* The last update was a /settimezone of a known zone that was confirmed: that
\* zone is the one on record for the sender.
SetIsStored ==
    (last.cmd = "settimezone" /\ last.reply = SetOk) =>
        /\ last.tz = strip(last.text[1]) /\ last.tz \in VALID_TIMEZONES
        /\ Zones(users, last.from) = {last.tz}

\* C11 as claimed: a confirmed /settimezone Z is on record, a no-argument
\* /settimezone reports the zone on record for the sender ("Asia/Singapore"
\* when there is none), there is at most one record per user and no record is
\* ever removed.
C11_ReportsStoredZone ==
    /\ [](\A u \in Users : Cardinality(Records(users, u)) <= 1)
    /\ []SetIsStored
    /\ []((last.cmd = "settimezone" /\ last.reply = Current) =>
              {last.tz} = OnRecord(users, last.from))
    /\ [][PreferenceFrame]_vars

\* C11 amended: as above, but a no-argument /settimezone reports the zone on
\* record only when the lookup does not raise; when it raises the reply names
\* "Asia/Singapore".
C11_ReportsStoredUnlessLookupFails ==
    /\ [](\A u \in Users : Cardinality(Records(users, u)) <= 1)
    /\ []SetIsStored
    /\ [][\A u \in Users, raises \in BOOLEAN :
            settimezone(u, << >>, "ok", raises) =>
                /\ last'.reply = Current
                /\ {last'.tz} = IF raises THEN {Asia_Singapore} ELSE OnRecord(users, u)]_vars
    /\ [][PreferenceFrame]_vars

\* A user whose record is the second of the collection is reported
\* "Europe/Paris", the zone on that record, while the first record, of the other
\* user, holds "UTC".
C11_Witness ==
    /\ last.cmd = "settimezone" /\ last.reply = Current /\ last.tz = Europe_Paris
    /\ Len(users) = 2
    /\ users[1].user_id # last.from /\ users[1].timezone = UTC
    /\ users[2].user_id = last.from /\ users[2].timezone = Europe_Paris

Rejections == {TooLong, Invalid, NotAvailable, ErrorOccurred}

\* C12: a /settimezone whose argument is longer than 50 characters, or is not
\* in the known zone set, or cannot be constructed as a zone, is answered with
\* a rejection, and no preference record changes.
C12_RejectedChangesNothing ==
    [][\A u \in Users, args \in TzArgs \ {<< >>}, zi \in ZoneInfoOutcomes, raises \in BOOLEAN :
          ( /\ settimezone(u, args, zi, raises)
            /\ \/ Len(args[1]) > MAX_TIMEZONE_LENGTH
               \/ args[1] \notin VALID_TIMEZONES
               \/ zi # "ok" )
          => (last'.reply \in Rejections /\ users' = users)]_vars

\* "BadZone/Nope" has just been rejected for a user whose record holds
\* "Europe/Paris", beside the record of the other user.
C12_Witness ==
    /\ last.cmd = "settimezone" /\ last.text = <<BadZone_Nope>> /\ last.reply = Invalid
    /\ Zones(users, last.from) = {Europe_Paris}
    /\ Len(users) = 2

\* The outcome of the call of f, once it has ended.
Ended(f) == call.fn = f /\ call.out # << >>

\* C16: validate_reminder_text fails with ValidationError when the sanitized
\* text has length 0 or more than 1000, and returns the sanitized text when its
\* length is 1 to 1000 and no suspicious pattern is found in it.
C16_ReminderLengthBounds ==
    Ended("validate_reminder_text") =>
        LET clean == sanitize_text(call.arg) IN
        /\ (Len(clean) = 0 \/ Len(clean) > 1000) => call.out[1] = Raise("ValidationError")
        /\ (Len(clean) \in 1..1000 /\ ~SUSPICIOUS_PATTERNS(clean)) => call.out[1] = Return(clean)

\* A text of 1001 characters, 1000 of them after sanitization, has been
\* returned sanitized.
C16_Witness ==
    /\ Ended("validate_reminder_text")
    /\ Len(call.arg) = 1001
    /\ call.out[1].raises = "" /\ Len(call.out[1].value) = 1000

\* C17 as claimed: None returns None; any other name, sanitized, either matches
\* the pattern and is returned, or the call fails with ValidationError.
C17_UsernameMatchesOrFails ==
    Ended("validate_username") =>
        IF call.arg = None THEN call.out[1] = Return(None)
        ELSE LET clean == sanitize_text(call.arg[1]) IN
             \/ match_username(clean) /\ call.out[1] = Return(Some(clean))
             \/ call.out[1] = Raise("ValidationError")

\* C17 amended: None, and a name that is empty after sanitization, return None;
\* any other name, sanitized, is returned when it matches the pattern and fails
\* with ValidationError when it does not.
C17_UsernameEmptyIsAbsent ==
    Ended("validate_username") =>
        IF call.arg = None THEN call.out[1] = Return(None)
        ELSE LET clean == sanitize_text(call.arg[1]) IN
             IF clean = << >> THEN call.out[1] = Return(None)
             ELSE IF match_username(clean) THEN call.out[1] = Return(Some(clean))
             ELSE call.out[1] = Raise("ValidationError")

\* A name of whitespace and control characters only has returned None.
C17_Witness ==
    /\ Ended("validate_username")
    /\ call.arg # None /\ call.arg[1] # << >>
    /\ sanitize_text(call.arg[1]) = << >>
    /\ call.out[1] = Return(None)

\* C15 as claimed: for any aware datetime t, sgt_to_utc, utc_to_sgt and their
\* round trips in either order return a datetime that denotes the instant of t.
C15_RoundTripAnyTimestamp ==
    call.fn \in {"sgt_to_utc", "utc_to_sgt"} =>
        \A i \in DOMAIN call.out :
            /\ call.out[i].raises = ""
            /\ Instant(call.out[i].value) = Instant(call.arg)

\* The instant of t can be read in UTC and in Asia/Singapore within datetime's
\* range.
Convertible(t) == Instant(t) \in 0..(MAX_HOUR - utcoffset(Asia_Singapore))

\* C15 amended: for any aware datetime t whose instant has a reading in UTC and
\* in Asia/Singapore within datetime.min .. datetime.max, both conversions and
\* both round trips return a datetime that denotes the instant of t; for any
\* other t a conversion either does the same or raises OverflowError.
C15_RoundTripWithinRange ==
    call.fn \in {"sgt_to_utc", "utc_to_sgt"} =>
        \A i \in DOMAIN call.out :
            IF call.out[i].raises = ""
            THEN Instant(call.out[i].value) = Instant(call.arg)
            ELSE call.out[i] = Raise("OverflowError") /\ ~Convertible(call.arg)

\* A datetime five hours behind UTC has gone to Asia/Singapore and back to
\* UTC: three different readings.
C15_Witness ==
    /\ call.fn = "utc_to_sgt" /\ Len(call.out) = 2
    /\ call.arg.off = -5
    /\ call.out[1].raises = "" /\ call.out[2].raises = ""
    /\ call.out[1].value.wall = call.arg.wall + 13
    /\ call.out[2].value.wall = call.arg.wall + 5

\* The request reaches the backend: its text is not empty after sanitization.
ReachesBackend == sanitize_for_llm(call.arg.text) # << >>

\* C13: gemini_dateparser returns None when the backend's structured result is
\* absent, marked invalid or without a timestamp, and raises DateParsingError
\* when the backend call itself fails.
C13_ParserOutcome ==
    (call.fn = "dateparser" /\ Len(call.out) >= 1 /\ ReachesBackend) =>
        LET b == call.arg.backend IN
        /\ b.status = "call_fails" => call.out[1] = Raise("DateParsingError")
        /\ (b.status = "absent" \/ (b.status = "parsed" /\ (~b.valid \/ b.ts = None)))
               => call.out[1] = Return(None)

\* C14: for the same text, target timezone and backend behaviour the Gemini
\* integration and the Groq integration end the same way: both raise
\* DateParsingError, or both return None, or both return the same datetime in
\* the target timezone.
C14_BackendEquivalence ==
    (call.fn = "dateparser" /\ Len(call.out) = 2) =>
        /\ call.out[1] = call.out[2]
        /\ call.out[1].raises \in {"", "DateParsingError"}
        /\ (call.out[1].raises = "" /\ call.out[1].value # None) =>
               call.out[1].value[1].off = utcoffset(call.arg.tz)

\* This step is a failed delivery of w written down: w goes on to the next
\* candidate after a send that returned False.
FailureRecorded(w) == pc[w] = "record" /\ ~success[w] /\ MovesOn(w)

\* C18: a failed delivery leaves the document unlocked and unsent, and within
\* one pass no document is claimed a second time: the retry is left to a later
\* pass.
C18_NoSamePassRetry ==
    [][\A w \in Workers :
         /\ (FailureRecorded(w) /\ cur[w].id \in DOMAIN db) =>
               /\ db'[cur[w].id].processing = "false"
               /\ db'[cur[w].id].sent = db[cur[w].id].sent
         /\ \A r \in DocIds : Obtains(w, r) => r \notin attempted[w]]_vars

\* C19: with no insertions, a pass that is at its claim step comes to the claim
\* that finds no candidate and stops, also when deliveries fail.
C19_PassTerminates == (pc[1] = "claim") ~> (pc[1] = "idle" /\ task_state[1] = "SUCCESS")

\* This step ends w's pass.
PassEnds(w) == pc[w] \in {"claim", "send", "record", "release"} /\ pc'[w] = "idle"

\* C20: an error after a document was claimed (reading its fields, sending,
\* recording the outcome) unlocks the document and the pass goes on: when a
\* pass ends, no document it claimed is left locked.
C20_UnlockOnError ==
    [][\A w \in Workers :
         /\ PassEnds(w) =>
               \A r \in DOMAIN db' : ~(w \in claimants'[r] /\ db'[r].processing = "true")
         /\ (pc[w] \in {"send", "record", "release"} /\ pc'[w] \notin {pc[w], "down"}) =>
               pc'[w] \in {"record", "release", "claim"}]_vars

\* This step ends w's pass with DatabaseError raised to check_reminders.
PassRaises(w) ==
    /\ pc[w] \in {"claim", "send", "record", "release"}
    /\ pc'[w] = "idle"
    /\ task_state'[w] = "FAILURE"

\* This step ends w's pass with its return.
PassReturns(w) ==
    /\ pc[w] \in {"claim", "send", "record", "release"}
    /\ pc'[w] = "idle"
    /\ task_state'[w] = "SUCCESS"

\* C21: send_due_reminders raises DatabaseError only when the claim query itself
\* failed, that is at the top of the loop with no document claimed by the
\* query; a failure confined to one claimed reminder (a document without its
\* fields, a send error, a failed outcome write) never makes the pass raise, and
\* the pass returns only when no due, unsent, unlocked reminder is left.
C21_EscalationOnlyForClaimQuery ==
    [][\A w \in Workers :
         /\ PassRaises(w) => (pc[w] = "claim" /\ db' = db)
         /\ PassReturns(w) =>
               \A r \in DOMAIN db : ~claim_filter(db[r], now_utc[w])]_vars

\* C22: while delivery to one user fails on every attempt, a due, unsent
\* reminder of a user to whom delivery succeeds is eventually delivered and
\* marked sent, under fair scheduling of the polling passes.
C22_NoHeadOfLineBlocking ==
    \A r \in DocIds :
        (/\ r \in DOMAIN db
         /\ db[r].user_id \notin Blocked
         /\ ~db[r].sent
         /\ db[r].reminder_date <= now)
        ~> (r \in DOMAIN db /\ db[r].sent /\ delivered[r] > 0)

\* This step answers an update of user u that was routed to handler h.
Answered(u, h) == last' # last /\ last'.from = u /\ last'.cmd = h

\* C23: from WAITING_FOR_REMINDER a text that fails validate_reminder_text is
\* answered and leaves the conversation in WAITING_FOR_REMINDER with the user's
\* data as it was; a text that passes is stored, sanitized, in that user's data
\* and the conversation moves to WAITING_FOR_DATE; and WAITING_FOR_DATE is
\* entered only from WAITING_FOR_REMINDER, by a step that stores a text.
C23_TextStep ==
    [][\A u \in Users :
         /\ (setconv[u] = "WAITING_FOR_REMINDER" /\ Answered(u, "handle_reminder")) =>
               IF validate_reminder_text(last'.text).raises # ""
               THEN /\ last'.reply # ""
                    /\ setconv'[u] = "WAITING_FOR_REMINDER"
                    /\ user_data'[u] = user_data[u]
               ELSE /\ user_data'[u].reminder = Some(sanitize_text(last'.text))
                    /\ setconv'[u] = "WAITING_FOR_DATE"
         /\ (setconv[u] # "WAITING_FOR_DATE" /\ setconv'[u] = "WAITING_FOR_DATE") =>
               /\ setconv[u] = "WAITING_FOR_REMINDER"
               /\ Answered(u, "handle_reminder")
               /\ user_data'[u].reminder = Some(sanitize_text(last'.text))]_vars

\* A text that sanitization changed was stored and the date is awaited.
C23_Witness ==
    \E u \in Users :
        /\ setconv[u] = "WAITING_FOR_DATE"
        /\ last.from = u /\ last.cmd = "handle_reminder"
        /\ last.text = <<" ", "3", "p", "m", NUL>>
        /\ user_data[u].reminder = Some(<<"3", "p", "m">>)

\* C24: from WAITING_FOR_DATE, a date text that fails validation, a parser that
\* returns nothing, or a parsed time that is not strictly after now leaves the
\* conversation in WAITING_FOR_DATE and inserts no document; and every document
\* that is inserted has a reminder_date strictly later than the clock at the
\* step that made the future-check and inserted it.
C24_DateStep ==
    [][/\ \A u \in Users :
            (/\ setconv[u] = "WAITING_FOR_DATE"
             /\ Answered(u, "handle_date")
             /\ \/ validate_date_input(last'.text).raises # ""
                \/ last'.reply \in {NotUnderstood, MustBeFuture}) =>
                  /\ setconv'[u] = "WAITING_FOR_DATE"
                  /\ db' = db
                  /\ nextId' = nextId
       /\ \A r \in DOMAIN db' \ DOMAIN db : db'[r].reminder_date > now]_vars

\* A date that was not in the future has been turned down: the conversation
\* still waits for a date and nothing is in the collection.
C24_Witness ==
    /\ last.cmd = "handle_date"
    /\ last.reply = MustBeFuture
    /\ setconv[last.from] = "WAITING_FOR_DATE"
    /\ user_data[last.from].reminder # None
    /\ now > 0
    /\ db = << >>

\* C25: once the date step has accepted a future time the conversation ends,
\* whether or not the insertion succeeds; on success exactly one document is
\* inserted, with the sender's user_id, the text stored earlier in the
\* conversation, the due time in UTC (the confirmed local time less the zone's
\* offset), sent false, recurrence "none" and no processing field; on a
\* validation or database failure, and in every other step of the
\* conversations, no document is inserted.
C25_Insertion ==
    [][/\ \A u \in Users :
            (awaiting.user = u /\ Answered(u, "handle_insert")) =>
                /\ setconv'[u] = "END"
                /\ IF last'.reply = GotIt
                   THEN /\ DOMAIN db' = DOMAIN db \cup {nextId}
                        /\ nextId \notin DOMAIN db
                        /\ \A r \in DOMAIN db : db'[r] = db[r]
                        /\ db'[nextId] =
                              [user_id |-> u,
                               reminder |-> user_data[u].reminder[1],
                               reminder_date |-> last'.n - utcoffset(awaiting.user_tz),
                               recurrence |-> "none",
                               sent |-> FALSE,
                               processing |-> "absent"]
                   ELSE db' = db
       /\ (DOMAIN db' \ DOMAIN db # {}) => (last'.cmd = "handle_insert" /\ last'.reply = GotIt)
      ]_vars

\* A reminder of a user in the zone UTC+8 was inserted and confirmed, and the
\* conversation is over.
C25_Witness ==
    \E r \in DOMAIN db :
        /\ last.cmd = "handle_insert" /\ last.reply = GotIt
        /\ db[r].user_id = last.from
        /\ db[r].reminder = <<"3", "p", "m">>
        /\ db[r].reminder_date = last.n - 8
        /\ setconv[last.from] = "END"

\* C26: /cancel in WAITING_FOR_REMINDER or WAITING_FOR_DATE ends the
\* conversation and inserts nothing; and when the conversation ends, by
\* cancellation or by completion, the user's conversation data holds neither
\* the reminder text nor the reminder date collected in it.
C26_DataDestroyedAtEnd ==
    [][\A u \in Users :
         /\ (SetReminderActive(u) /\ Answered(u, "cancel")) =>
               (setconv'[u] = "END" /\ db' = db)
         /\ (SetReminderActive(u) /\ setconv'[u] = "END") =>
               (user_data'[u].reminder = None /\ user_data'[u].reminder_date = None)]_vars

\* This step takes a text message of user u: it is routed to the text handler
\* of a conversation of u.
TextFrom(u) ==
    /\ Dispatching
    /\ last' # last
    /\ last'.from = u
    /\ last'.text # << >>
    /\ last'.cmd \in {"clearall", "handle_reminder", "handle_date"}

\* C27: when the clear-all conversation of a user is in CONFIRM_DELETE, a reply
\* "no" in any letter case deletes nothing and ends the conversation; a reply
\* that is neither "yes" nor "no" deletes nothing and leaves it in
\* CONFIRM_DELETE; and the clear-all handler changes the collection only on a
\* "yes" received in CONFIRM_DELETE.
C27_NonConfirmingReplies ==
    [][\A u \in Users :
         /\ (conv[u] = "CONFIRM_DELETE" /\ TextFrom(u) /\ lower(last'.text) = no) =>
               (db' = db /\ conv'[u] = "END")
         /\ (conv[u] = "CONFIRM_DELETE" /\ TextFrom(u) /\ lower(last'.text) \notin {yes, no}) =>
               (DOMAIN db \subseteq DOMAIN db' /\ conv'[u] = "CONFIRM_DELETE")
         /\ (Answered(u, "clearall") /\ db' # db) =>
               (conv[u] = "CONFIRM_DELETE" /\ lower(last'.text) = yes)]_vars

\* C28: /cancel from a user whose clear-all conversation is in CONFIRM_DELETE
\* ends that conversation, so that a later "yes" of the user deletes nothing,
\* and deletes no document.
C28_CancelEndsClearAll ==
    [][\A u \in Users :
         (conv[u] = "CONFIRM_DELETE" /\ Answered(u, "cancel")) =>
             (conv'[u] = "END" /\ db' = db)]_vars

\* C29: a step changes the conversation state or the stored conversation data
\* of a user only when it handles an update of that user, however the two
\* users' updates interleave; and every inserted reminder carries the user_id
\* of the user whose conversation held its text and its date.
C29_PerUserIsolation ==
    [][/\ \A b \in Users :
            (\/ setconv'[b] # setconv[b]
             \/ conv'[b] # conv[b]
             \/ user_data'[b] # user_data[b]) => (last' # last /\ last'.from = b)
       /\ \A r \in DOMAIN db' \ DOMAIN db :
            /\ last'.from = db'[r].user_id
            /\ db'[r].user_id \in Users
            /\ user_data[db'[r].user_id].reminder = Some(db'[r].reminder)
            /\ user_data'[db'[r].user_id].reminder_date = Some(db'[r].reminder_date)]_vars

\* User 1's reminder is in the collection while user 2, who stored another
\* text, is still asked for a date.
C29_Witness ==
    /\ \E r \in DOMAIN db :
          /\ db[r].user_id = 1
          /\ db[r].reminder = <<"3", "p", "m">>
          /\ user_data[1].reminder_date = Some(db[r].reminder_date)
    /\ setconv[1] = "END"
    /\ setconv[2] = "WAITING_FOR_DATE"
    /\ user_data[2].reminder = Some(yes)
    /\ conv[2] = "CONFIRM_DELETE"

\* C30: while the date-parser call of one user's handle_date is outstanding, an
\* update of another user can be routed to its handler and answered: some
\* handler step of another user is enabled.
C30_ParserDoesNotBlockOthers ==
    awaiting # NoAwait =>
        \E u \in Users \ {awaiting.user} :
            ENABLED (start(u) \/ setreminder(u) \/ cancel(u) \/ confirm_clear(u))

\* C31: a handler step whose database operation fails is answered: the update
\* that reached handle_insert or clearall gets a reply (the handler's apology
\* when the operation raised), never none.
C31_FailureIsAnswered ==
    [][\A u \in Users :
          (Answered(u, "handle_insert") \/ Answered(u, "clearall"))
              => last'.reply # ""]_vars

\* C32: the preference store fails open.  A no-argument /settimezone is always
\* answered and names "Asia/Singapore" when the sender has no record or the
\* lookup raises; an accepted /settimezone whose write raises is answered with
\* the save failure, is not confirmed, and leaves every record as it was.
C32_TimezoneFailsOpen ==
    [][\A u \in Users, args \in TzArgs, zi \in ZoneInfoOutcomes, raises \in BOOLEAN :
          settimezone(u, args, zi, raises) =>
              /\ last'.reply # ""
              /\ (args = << >> /\ (raises \/ Records(users, u) = {}))
                    => (last'.reply = Current /\ last'.tz = Asia_Singapore)
              /\ (args # << >> /\ raises)
                    => /\ users' = users
                       /\ last'.reply # SetOk
                       /\ tz_rejection(strip(args[1]), zi) = "" => last'.reply = SaveFailed]_vars

\* The sender's record holds "UTC"; their /settimezone Europe/Paris has just
\* been answered with the save failure, and the record still holds "UTC".
C32_Witness ==
    /\ last.cmd = "settimezone" /\ last.text = <<Europe_Paris>> /\ last.reply = SaveFailed
    /\ Zones(users, last.from) = {UTC}

\* C33: /listreminders of the authorized user, when the query does not raise,
\* is answered with one bullet line for each of the sender's documents that
\* formats without error and with no other line: "no upcoming reminders" when
\* the sender has no document, "no valid reminders found" when none of them
\* formats; and the collection is as it was.
C33_LineAccounting ==
    [][\A u \in Users :
          (u = AUTHORIZED_USER_ID /\ listreminders(u, FALSE)) =>
              LET own == {r \in DOMAIN db : db[r].user_id = u}
                  good == {r \in own : format_line(db[r]).raises = ""} IN
              /\ db' = db
              /\ Len(last'.lines) = Cardinality(good)
              /\ \A r \in good : \E i \in DOMAIN last'.lines :
                                    last'.lines[i] = format_line(db[r]).value
              /\ last'.reply = IF own = {} THEN NoUpcoming
                               ELSE IF good = {} THEN NoValid
                               ELSE Listing]_vars

\* C34: a reminder that is due and unsent is eventually delivered and marked
\* sent, unless it is deleted.
C34_EventualDelivery ==
    \A r \in DocIds :
        (r \in DOMAIN db /\ ~db[r].sent /\ db[r].reminder_date <= now)
            ~> (r \notin DOMAIN db \/ (db[r].sent /\ delivered[r] > 0))

\* C35: no user is at once inside an active set-reminder conversation and an
\* active clear-all conversation; and when the clear-all conversation of a
\* user is in CONFIRM_DELETE, a text "yes" of that user is answered by
\* clearall (unless delete_many raises, every reminder of the user is gone and
\* the conversation is over).
C35_OneActiveConversation ==
    /\ [](\A u \in Users : ~(SetReminderActive(u) /\ conv[u] = "CONFIRM_DELETE"))
    /\ [][\A u \in Users :
            (conv[u] = "CONFIRM_DELETE" /\ TextFrom(u) /\ lower(last'.text) = yes) =>
                /\ last'.cmd = "clearall"
                /\ last'.reply # "" =>
                      /\ conv'[u] = "END"
                      /\ \A r \in DOMAIN db' : db'[r].user_id # u]_vars

\* C36: no notification is sent for a reminder that a confirmed /clearall has
\* deleted: a send that succeeds is for a document still in the collection.
C36_NoSendAfterClearAll ==
    [][\A w \in Workers :
          (pc[w] = "send" /\ pc'[w] = "record" /\ success'[w])
              => cur[w].id \in DOMAIN db]_vars

\* C37: a step of a dispatch worker (the startup hook, a step of a pass) leaves
\* the set of documents as it is and leaves user_id, reminder and reminder_date
\* of every document as they are; in particular the outcome write for a
\* document deleted in flight does not bring it back.  The document a worker
\* obtains is remembered with its own user_id and text, and those are what the
\* send that follows uses.
C37_DispatchFrame ==
    [][\A w \in Workers :
          pc'[w] # pc[w] =>
              /\ DOMAIN db' = DOMAIN db
              /\ \A r \in DOMAIN db :
                    /\ db'[r].user_id = db[r].user_id
                    /\ db'[r].reminder = db[r].reminder
                    /\ db'[r].reminder_date = db[r].reminder_date
              /\ \A r \in DocIds :
                    Obtains(w, r) =>
                        (cur'[w].user_id = db[r].user_id /\ cur'[w].reminder = db[r].reminder)
              /\ (pc[w] = "send" /\ cur[w].id \in DOMAIN db) =>
                    /\ cur[w].user_id = db[cur[w].id].user_id
                    /\ cur[w].reminder = db[cur[w].id].reminder]_vars

\* A worker has sent the notification of a reminder that user 1's /clearall
\* deleted while it was in flight, and is at its outcome write; another
\* document is in the collection.
C37_Witness ==
    \E w \in Workers :
        /\ pc[w] = "record"
        /\ cur[w].id \notin DOMAIN db
        /\ cur[w].user_id = 1
        /\ delivered[cur[w].id] = 1
        /\ last.cmd = "clearall" /\ last.n = 1
        /\ db # << >>

====
